---- MODULE Spec2Model ----
(***************************************************************************)
(* Model of "a", a command-line wrapper around the age encryption tool.    *)
(*                                                                         *)
(* Strings are sequences of tokens (short fragments of text), so that      *)
(* strings.HasPrefix, strings.HasSuffix and filepath.Join are computed on  *)
(* the text and not assumed.  The external age binary and the operating    *)
(* system's file system are the environment of the program.                *)
(***************************************************************************)
EXTENDS Integers, Sequences, FiniteSets, TLC

\* ------------------------------------------------------------------------
\* Bounds of the model
\* ------------------------------------------------------------------------

\* largest number of entries in the key directory
MaxEntries == 3

\* largest number of recipients given by one source (config, flag, GitHub)
MaxRecipients == 1

\* ------------------------------------------------------------------------
\* Strings and paths
\* ------------------------------------------------------------------------

Empty == << >>

HasPrefix(s, p) == Len(p) <= Len(s) /\ SubSeq(s, 1, Len(p)) = p

HasSuffix(s, p) == Len(p) <= Len(s) /\ SubSeq(s, Len(s) - Len(p) + 1, Len(s)) = p

\* filepath.Join of a directory and one more element; empty elements are ignored
Join(dir, name) ==
    IF dir = Empty THEN name
    ELSE IF name = Empty THEN dir
    ELSE dir \o <<"/">> \o name

\* sequences over S of length at most n
SeqsUpTo(S, n) == UNION {[1..k -> S] : k \in 0..n}

\* the elements of a sequence
Range(s) == {s[i] : i \in 1..Len(s)}

HOME == <<"/", "h">>

TmpDir == <<"/", "t">>

\* ------------------------------------------------------------------------
\* The key directory ~/.ssh and the key files
\* ------------------------------------------------------------------------

NameIdDir == <<"id_", "dir">>
NameIdEcdsa == <<"id_", "ecdsa">>
NameIdEd25519 == <<"id_", "ed25519">>
NameIdRsa == <<"id_", "rsa">>
NameIdRsaPub == <<"id_", "rsa", ".pub">>
NameKnownHosts == <<"known_hosts">>

\* the names a key directory may hold, in the order os.ReadDir lists them
\* (sorted by file name)
SortedNames ==
    <<NameIdDir, NameIdEcdsa, NameIdEd25519, NameIdRsa, NameIdRsaPub, NameKnownHosts>>

\* the entries of the key directory that are directories
IsDirEntry(name) == name = NameIdDir

SshDir == Join(HOME, <<".ssh">>)

\* os.ReadDir: the entries of the directory, sorted by file name
ReadDir(entries) == SelectSeq(SortedNames, LAMBDA n : n \in entries)

\* a key file kept outside the key directory, with a name age accepts
TmpKey == Join(TmpDir, NameIdRsa)

\* a key file kept outside the key directory under another name
OtherKey == Join(TmpDir, <<"mykey">>)

\* a path at which there is no file
Missing == <<"nofile">>

\* the identity a private key file holds ("none": no such key file)
KeyAt(path, entries) ==
    IF path = TmpKey THEN "K1"
    ELSE IF path = OtherKey THEN "K2"
    ELSE IF path = Join(SshDir, NameIdRsa) /\ NameIdRsa \in entries THEN "K1"
    ELSE IF path = Join(SshDir, NameIdEd25519) /\ NameIdEd25519 \in entries THEN "K2"
    ELSE IF path = Join(SshDir, NameIdEcdsa) /\ NameIdEcdsa \in entries THEN "K3"
    ELSE "none"

\* recipient strings: a public key file, a literal public key, and text that
\* is no public key
PubFile1 == Join(TmpDir, NameIdRsaPub)
PubLit2 == <<"ssh-ed25519 AAAA">>
Bogus == <<"bogus">>

\* the identity a recipient string stands for ("none": age rejects it)
RecipientKey(r) ==
    IF r = PubFile1 THEN "K1"
    ELSE IF r = PubLit2 THEN "K2"
    ELSE "none"

\* ------------------------------------------------------------------------
\* State
\* ------------------------------------------------------------------------

VARIABLES
    files,      \* the data files: path -> what the file holds
    pc,         \* "idle": no command runs; "trying": Decrypt walks the scanned
                \* keys; "done": the command has returned
    run,        \* the command that runs or ran last: its arguments and results
    goos,       \* runtime.GOOS
    xdg,        \* the environment variable XDG_CONFIG_HOME (Empty: not set)
    dirs,       \* the directories that exist
    cfiles,     \* the configuration files: path -> permissions and content
    call,       \* the call of the configuration code made last, and its results
    ccmd        \* the config command: how it was built and what its run did

cryptVars == <<files, pc, run>>

confVars == <<goos, xdg, dirs, cfiles, call, ccmd>>

vars == <<files, pc, run, goos, xdg, dirs, cfiles, call, ccmd>>

NoFile == [kind |-> "none", data |-> "", rcpts |-> {}]

Plain(d) == [kind |-> "plain", data |-> d, rcpts |-> {}]

Encrypted(d, rs) == [kind |-> "enc", data |-> d, rcpts |-> rs]

FileAt(fs, p) == IF p \in DOMAIN fs THEN fs[p] ELSE NoFile

\* os.Stat(path) succeeds
Exists(fs, p) == FileAt(fs, p).kind # "none"

WriteFile(fs, p, rec) == [q \in DOMAIN fs \cup {p} |-> IF q = p THEN rec ELSE fs[q]]

InTxt == <<"in", ".txt">>
EncTxt == <<"enc", ".txt">>
EncBin == <<"enc", ".bin">>
DecTxt == <<"dec", ".txt">>
DecOut == <<"dec", ".out">>
DecBin == <<"dec", ".bin">>

Plaintexts == {"P1", "P2"}

\* a run that has not started
NoRun ==
    [cmd |-> "none", input |-> Empty, output |-> Empty,
     sshKeyFlag |-> Empty, cfgKey |-> Empty, entries |-> {}, readable |-> TRUE,
     cfgRecipients |-> <<>>, flagRecipients |-> <<>>, ghUserFlag |-> Empty,
     cfgGitHubUser |-> Empty, fetch |-> [kind |-> "none", body |-> <<>>],
     allRecipients |-> <<>>, ghUser |-> Empty, ageArgs |-> <<>>,
     sshKey |-> Empty, scanned |-> FALSE, keys |-> <<>>, idx |-> 0,
     triedKeys |-> <<>>, attempts |-> <<>>, success |-> FALSE,
     err |-> "none", reported |-> <<>>]

\* ------------------------------------------------------------------------
\* The external age binary
\* ------------------------------------------------------------------------

\* age -o output -r r1 ... input: succeeds when the input can be read and
\* every recipient is a public key
AgeEncryptOk(fs, recipients, input) ==
    /\ Exists(fs, input)
    /\ recipients # <<>>
    /\ \A i \in 1..Len(recipients) : RecipientKey(recipients[i]) # "none"

AgeEncryptOutput(fs, recipients, input) ==
    Encrypted(FileAt(fs, input).data,
              {RecipientKey(recipients[i]) : i \in 1..Len(recipients)})

\* age -d -i keyPath -o output input: succeeds when the key file holds an
\* identity the input was encrypted for
AgeDecryptOk(fs, entries, keyPath, input) ==
    /\ KeyAt(keyPath, entries) # "none"
    /\ FileAt(fs, input).kind = "enc"
    /\ KeyAt(keyPath, entries) \in FileAt(fs, input).rcpts

\* ------------------------------------------------------------------------
\* Encrypt (cmd/encrypt.go)
\* ------------------------------------------------------------------------

IsAlnum(c) == c \in {"u", "v", "7"}

\* the regular expression ^[a-zA-Z0-9](?:[a-zA-Z0-9-]{0,37}[a-zA-Z0-9])?$
ValidUser(u) ==
    /\ Len(u) >= 1
    /\ Len(u) <= 39
    /\ IsAlnum(u[1])
    /\ IsAlnum(u[Len(u)])
    /\ \A i \in 1..Len(u) : IsAlnum(u[i]) \/ u[i] = "-"

RECURSIVE TrimLeft(_)
TrimLeft(s) == IF s # <<>> /\ Head(s) = " " THEN TrimLeft(Tail(s)) ELSE s

RECURSIVE TrimRight(_)
TrimRight(s) ==
    IF s # <<>> /\ s[Len(s)] = " " THEN TrimRight(SubSeq(s, 1, Len(s) - 1)) ELSE s

\* strings.TrimSpace
TrimSpace(s) == TrimRight(TrimLeft(s))

KeysUrl(ghUser) == <<"https://github.com/">> \o ghUser \o <<".keys">>

\* the non-empty trimmed lines of a response body
BodyKeys(body) ==
    SelectSeq([i \in 1..Len(body) |-> TrimSpace(body[i])], LAMBDA l : l # Empty)

\* the configured GitHub user taken before the flag
ResolveGhUserConfigFirst(ghUserFlag, cfgGitHubUser) ==
    IF cfgGitHubUser # Empty THEN cfgGitHubUser ELSE ghUserFlag

\* the GitHub user whose keys are fetched
ResolveGhUser(ghUserFlag, cfgGitHubUser) ==
    IF ghUserFlag = Empty /\ cfgGitHubUser # Empty THEN cfgGitHubUser ELSE ghUserFlag

\* the keys http.Get and the reading of its response add
GithubKeys(ghUser, fetch) ==
    IF ghUser = Empty THEN <<>>
    ELSE IF ~ValidUser(ghUser) THEN <<>>
    ELSE IF ~(HasPrefix(KeysUrl(ghUser), <<"https://github.com/">>)
              /\ HasSuffix(KeysUrl(ghUser), <<".keys">>)) THEN <<>>
    ELSE IF fetch.kind = "ok" THEN BodyKeys(fetch.body)
    ELSE <<>>

\* collectRecipients: the recipient list, the GitHub user and the error
collectRecipients(cfgRecipients, cfgGitHubUser, recipients, ghUserFlag, fetch) ==
    LET ghUser == ResolveGhUser(ghUserFlag, cfgGitHubUser)
    IN  [all |-> (cfgRecipients \o recipients) \o GithubKeys(ghUser, fetch),
         ghUser |-> ghUser,
         err |-> "nil"]

RECURSIVE RecipientArgs(_)
RecipientArgs(recipients) ==
    IF recipients = <<>> THEN <<>>
    ELSE <<<<"-r">>, Head(recipients)>> \o RecipientArgs(Tail(recipients))

AgeArgsOf(output, input, recipients) ==
    <<<<"-o">>, output>> \o RecipientArgs(recipients) \o <<input>>

\* the validation buildAgeArgs makes of its argument list (indices from 0):
\* the first argument that fails its check decides the error
AgeArgsErr(ageArgs, output) ==
    LET n == Len(ageArgs)
        isFlagPos(i) == i % 2 = 0 /\ i < n - 2
        bad(i) == IF isFlagPos(i) THEN ageArgs[i + 1] \notin {<<"-o">>, <<"-r">>}
                  ELSE ageArgs[i + 1] = Empty
        first == CHOOSE i \in 0..(n - 1) : bad(i) /\ \A j \in 0..(i - 1) : ~bad(j)
    IN  IF \E i \in 0..(n - 1) : bad(i)
        THEN IF isFlagPos(first) THEN "unexpected flag in age arguments"
             ELSE "invalid argument for encryption: empty string"
        ELSE IF ~HasSuffix(output, <<".txt">>) /\ ~HasSuffix(output, <<".out">>)
             THEN "invalid output file for encryption"
        ELSE "nil"

\* buildAgeArgs: the argument list and the error
buildAgeArgs(output, input, recipients) ==
    [args |-> AgeArgsOf(output, input, recipients),
     err |-> AgeArgsErr(AgeArgsOf(output, input, recipients), output)]

\* the recipients, the output and the input age reads from its arguments
ArgRecipients(ageArgs) == [i \in 1..((Len(ageArgs) - 3) \div 2) |-> ageArgs[2 + 2 * i]]

\* runAgeEncrypt: TRUE when the age process exits with status 0
runAgeEncryptOk(fs, ageArgs) ==
    AgeEncryptOk(fs, ArgRecipients(ageArgs), ageArgs[Len(ageArgs)])

\* Encrypt without its check of the number of recipients
EncryptErrNoRecipientCheck(fs, input, output, cr) ==
    IF input = Empty THEN "input file is required"
    ELSE IF output = Empty THEN "output file is required"
    ELSE IF ~Exists(fs, input) THEN "input file does not exist"
    ELSE IF cr.err # "nil" THEN cr.err
    ELSE IF buildAgeArgs(output, input, cr.all).err # "nil"
         THEN buildAgeArgs(output, input, cr.all).err
    ELSE IF ~runAgeEncryptOk(fs, buildAgeArgs(output, input, cr.all).args)
         THEN "age encryption failed"
    ELSE "nil"

\* the error Encrypt returns ("nil": none) on the given arguments
EncryptErr(fs, input, output, cr) ==
    IF input = Empty THEN "input file is required"
    ELSE IF output = Empty THEN "output file is required"
    ELSE IF ~Exists(fs, input) THEN "input file does not exist"
    ELSE IF cr.err # "nil" THEN cr.err
    ELSE IF Len(cr.all) = 0 THEN "at least one recipient is required"
    ELSE IF buildAgeArgs(output, input, cr.all).err # "nil"
         THEN buildAgeArgs(output, input, cr.all).err
    ELSE IF ~runAgeEncryptOk(fs, buildAgeArgs(output, input, cr.all).args)
         THEN "age encryption failed"
    ELSE "nil"

\* the error Encrypt returns before it collects the recipients ("nil": none)
EncryptArgErr(fs, input, output) ==
    IF input = Empty THEN "input file is required"
    ELSE IF output = Empty THEN "output file is required"
    ELSE IF ~Exists(fs, input) THEN "input file does not exist"
    ELSE "nil"

\* TRUE when Encrypt gets as far as starting the age process
EncryptRunsAge(fs, input, output, cr) ==
    EncryptErr(fs, input, output, cr) \in {"nil", "age encryption failed"}

\* the RunE of the encrypt command
Encrypt(input, output, cfgRecipients, cfgGitHubUser, recipients, ghUserFlag, fetch) ==
    /\ pc = "idle"
    /\ LET cr == collectRecipients(cfgRecipients, cfgGitHubUser, recipients,
                                   ghUserFlag, fetch)
           err == EncryptErr(files, input, output, cr)
           ranAge == EncryptRunsAge(files, input, output, cr)
           args == IF ranAge THEN buildAgeArgs(output, input, cr.all).args ELSE <<>>
       IN  /\ run' = [NoRun EXCEPT !.cmd = "encrypt", !.input = input,
                         !.output = output, !.cfgRecipients = cfgRecipients,
                         !.flagRecipients = recipients, !.ghUserFlag = ghUserFlag,
                         !.cfgGitHubUser = cfgGitHubUser, !.fetch = fetch,
                         !.allRecipients = cr.all, !.ghUser = cr.ghUser,
                         !.ageArgs = args, !.err = err]
           /\ files' = IF err = "nil"
                       THEN WriteFile(files, output,
                                      AgeEncryptOutput(files, ArgRecipients(args), input))
                       ELSE files
    /\ pc' = "done"
    /\ UNCHANGED confVars

\* ------------------------------------------------------------------------
\* Decrypt (cmd/decrypt.go)
\* ------------------------------------------------------------------------

\* the argument list tryDecrypt builds
DecryptArgsOf(keyPath, output, input) ==
    <<<<"-d">>, <<"-i">>, keyPath, <<"-o">>, output, input>>

\* the validation tryDecrypt makes of its argument list (indices from 0):
\* the arguments at 0, 2 and 4 are checked as flags, the others as values
DecryptArgsErr(ageArgs) ==
    LET n == Len(ageArgs)
        isFlagPos(i) == i = 0 \/ i = 2 \/ i = 4
        bad(i) == IF isFlagPos(i)
                  THEN ageArgs[i + 1] \notin {<<"-d">>, <<"-i">>, <<"-o">>} /\ i # 0
                  ELSE ageArgs[i + 1] = Empty
        first == CHOOSE i \in 0..(n - 1) : bad(i) /\ \A j \in 0..(i - 1) : ~bad(j)
    IN  IF \E i \in 0..(n - 1) : bad(i)
        THEN IF isFlagPos(first) THEN "unexpected flag in age arguments"
             ELSE "invalid argument for decryption: empty string"
        ELSE "nil"

\* tryDecrypt starting age whatever its arguments are
tryDecryptUnchecked(keyPath, output, input) == "nil"

\* the error tryDecrypt returns before it starts age ("nil": it starts age)
tryDecryptCheck(keyPath, output, input) ==
    IF DecryptArgsErr(DecryptArgsOf(keyPath, output, input)) # "nil"
    THEN DecryptArgsErr(DecryptArgsOf(keyPath, output, input))
    ELSE IF ~HasSuffix(keyPath, NameIdRsa) /\ ~HasSuffix(keyPath, NameIdEd25519)
         THEN "invalid key file for decryption"
    ELSE IF ~HasSuffix(output, <<".txt">>) /\ ~HasSuffix(output, <<".out">>)
         THEN "invalid output file for decryption"
    ELSE "nil"

\* tryDecrypt: the error it returns ("nil": the key decrypted the input)
tryDecrypt(fs, entries, keyPath, output, input) ==
    IF tryDecryptCheck(keyPath, output, input) # "nil"
    THEN tryDecryptCheck(keyPath, output, input)
    ELSE IF AgeDecryptOk(fs, entries, keyPath, input) THEN "nil"
    ELSE "exit status 1"

\* what one attempt leaves to be remembered: the key, whether age was
\* started, and the error
Attempt(fs, entries, keyPath, output, input) ==
    [key |-> keyPath,
     age |-> tryDecryptCheck(keyPath, output, input) = "nil",
     err |-> tryDecrypt(fs, entries, keyPath, output, input)]

\* the files after an attempt: a successful age run writes the output
FilesAfter(fs, att, output, input) ==
    IF att.err = "nil" THEN WriteFile(fs, output, Plain(FileAt(fs, input).data))
    ELSE fs

\* selectSSHKey with the configured key taken before the flag
selectSSHKeyConfigFirst(sshKeyFlag, cfgKey) ==
    IF cfgKey # Empty THEN cfgKey ELSE sshKeyFlag

selectSSHKey(sshKeyFlag, cfgKey) ==
    IF sshKeyFlag # Empty THEN sshKeyFlag ELSE cfgKey

\* ScanSSHPrivateKeys without the test for the public keys
ScanSSHKeysWithPub(entries) ==
    LET names == SelectSeq(ReadDir(entries),
                           LAMBDA n : ~IsDirEntry(n) /\ HasPrefix(n, <<"id_">>))
    IN  [i \in 1..Len(names) |-> Join(SshDir, names[i])]

\* ScanSSHPrivateKeys on a readable key directory
ScanSSHPrivateKeys(entries) ==
    LET names == SelectSeq(ReadDir(entries),
                           LAMBDA n : /\ ~IsDirEntry(n)
                                      /\ HasPrefix(n, <<"id_">>)
                                      /\ ~HasSuffix(n, <<".pub">>))
    IN  [i \in 1..Len(names) |-> Join(SshDir, names[i])]

\* tryAllKeys records the key before it attempts it
RecordTried(triedKeys, keyPath) == Append(triedKeys, keyPath)

\* tryAllKeys returning at the first failed attempt
LoopGoesOnInverted(err) == err = "nil"

\* tryAllKeys goes on to the next key when the attempt failed
LoopGoesOn(err) == err # "nil"

\* Decrypt returning no error whatever the attempts gave
FinalErrSwallowed(success) == "nil"

\* the error Decrypt returns after its attempts
FinalErr(success) ==
    IF ~success THEN "decryption failed: none of the tried SSH keys matched"
    ELSE "nil"

\* an error of Decrypt that lists no key
ReportedNothing(success, triedKeys) == <<>>

\* the keys the error of Decrypt lists
Reported(success, triedKeys) == IF ~success THEN triedKeys ELSE <<>>

\* the error Decrypt returns before it selects a key ("nil": none)
DecryptArgErr(fs, input, output) ==
    IF input = Empty THEN "input file is required"
    ELSE IF output = Empty THEN "output file is required"
    ELSE IF ~Exists(fs, input) THEN "input file does not exist"
    ELSE "nil"

\* the RunE of the decrypt command, up to the loop over the scanned keys
DecryptStart(input, output, sshKeyFlag, cfgKey, entries, readable) ==
    /\ pc = "idle"
    /\ LET base == [NoRun EXCEPT !.cmd = "decrypt", !.input = input,
                       !.output = output, !.sshKeyFlag = sshKeyFlag,
                       !.cfgKey = cfgKey, !.entries = entries,
                       !.readable = readable]
           sshKey == selectSSHKey(sshKeyFlag, cfgKey)
           att == Attempt(files, entries, sshKey, output, input)
       IN  IF DecryptArgErr(files, input, output) # "nil"
           THEN /\ run' = [base EXCEPT !.err = DecryptArgErr(files, input, output)]
                /\ pc' = "done"
                /\ files' = files
           ELSE IF sshKey # Empty
           THEN /\ run' = [base EXCEPT !.sshKey = sshKey,
                              !.triedKeys = <<sshKey>>,
                              !.attempts = <<att>>,
                              !.success = (att.err = "nil"),
                              !.err = FinalErr(att.err = "nil"),
                              !.reported = Reported(att.err = "nil", <<sshKey>>)]
                /\ pc' = "done"
                /\ files' = FilesAfter(files, att, output, input)
           ELSE IF ~readable
           THEN /\ run' = [base EXCEPT !.scanned = TRUE,
                              !.err = "could not scan ~/.ssh for private keys"]
                /\ pc' = "done"
                /\ files' = files
           ELSE /\ run' = [base EXCEPT !.scanned = TRUE,
                              !.keys = ScanSSHPrivateKeys(entries),
                              !.idx = 1, !.err = "pending"]
                /\ pc' = "trying"
                /\ files' = files
    /\ UNCHANGED confVars

\* one turn of the loop of tryAllKeys
TryNextKey ==
    /\ pc = "trying"
    /\ run.idx <= Len(run.keys)
    /\ LET keyPath == run.keys[run.idx]
           att == Attempt(files, run.entries, keyPath, run.output, run.input)
           tried == RecordTried(run.triedKeys, keyPath)
       IN  /\ files' = FilesAfter(files, att, run.output, run.input)
           /\ IF LoopGoesOn(att.err)
              THEN /\ run' = [run EXCEPT !.triedKeys = tried,
                                 !.attempts = Append(@, att),
                                 !.idx = @ + 1]
                   /\ pc' = "trying"
              ELSE /\ run' = [run EXCEPT !.triedKeys = tried,
                                 !.attempts = Append(@, att),
                                 !.success = TRUE,
                                 !.err = FinalErr(TRUE)]
                   /\ pc' = "done"
    /\ UNCHANGED confVars

\* tryAllKeys has no key left: it returns false and Decrypt returns its error
TryAllKeysEnd ==
    /\ pc = "trying"
    /\ run.idx > Len(run.keys)
    /\ run' = [run EXCEPT !.success = FALSE, !.err = FinalErr(FALSE),
                  !.reported = Reported(FALSE, run.triedKeys)]
    /\ pc' = "done"
    /\ files' = files
    /\ UNCHANGED confVars

\* ------------------------------------------------------------------------
\* Configuration (cmd/config_shared.go)
\* ------------------------------------------------------------------------

\* the platforms the program is built for
OSes == {"linux", "darwin", "windows"}

\* type Config
MkConfig(sshKeyPath, gitHubUser, defaultRecipients, cacheTTLMinutes, logFilePath) ==
    [SSHKeyPath |-> sshKeyPath, GitHubUser |-> gitHubUser,
     DefaultRecipients |-> defaultRecipients, CacheTTLMinutes |-> cacheTTLMinutes,
     LogFilePath |-> logFilePath]

\* the zero value of Config
ZeroConfig == MkConfig(Empty, Empty, <<>>, 0, Empty)

IsAbs(p) == p # Empty /\ Head(p) \in {"/", "C:"}

Cwd == <<"/", "w">>

\* filepath.Abs
Abs(p) == IF IsAbs(p) THEN p ELSE Join(Cwd, p)

\* os.UserConfigDir: %AppData% on Windows, ~/Library/Application Support on
\* macOS, elsewhere $XDG_CONFIG_HOME (an error when it is relative) or
\* ~/.config
UserConfigDir(os, xdgHome) ==
    IF os = "windows" THEN [err |-> "nil", dir |-> <<"C:", "/", "AppData">>]
    ELSE IF os = "darwin"
         THEN [err |-> "nil",
               dir |-> Join(Join(HOME, <<"Library">>), <<"Application Support">>)]
    ELSE IF xdgHome = Empty THEN [err |-> "nil", dir |-> Join(HOME, <<".config">>)]
    ELSE IF ~IsAbs(xdgHome)
         THEN [err |-> "path in $XDG_CONFIG_HOME is relative", dir |-> Empty]
    ELSE [err |-> "nil", dir |-> xdgHome]

\* os.UserCacheDir
UserCacheDir(os) ==
    IF os = "windows" THEN <<"C:", "/", "LocalAppData">>
    ELSE IF os = "darwin" THEN Join(Join(HOME, <<"Library">>), <<"Caches">>)
    ELSE Join(HOME, <<".cache">>)

\* the path and the directories above it
Prefixes(path) ==
    {SubSeq(path, 1, k) : k \in {j \in 1..Len(path) :
                                    /\ path[j] # "/"
                                    /\ (j = Len(path) \/ path[j + 1] = "/")}}

\* the directory a path lies in
Parent(path) == SubSeq(path, 1, Len(path) - 2)

\* os.MkdirAll fails when the path, or a directory above it, is a file
MkdirAllErr(fs, path) ==
    IF \E q \in Prefixes(path) : q \in DOMAIN fs THEN "not a directory" ELSE "nil"

MkdirAll(ds, path) == ds \cup Prefixes(path)

\* the directory InitConfigPaths keeps the configuration in
InitConfigDir(os, xdgHome) ==
    IF os = "darwin" THEN [err |-> "nil", dir |-> Join(HOME, <<".config">>)]
    ELSE UserConfigDir(os, xdgHome)

NoPaths == [ConfigDir |-> Empty, ConfigFile |-> Empty, CacheDir |-> Empty]

\* InitConfigPaths: the error, the paths and the directories afterwards
InitConfigPathsOf(os, xdgHome, ds, fs) ==
    LET base == InitConfigDir(os, xdgHome)
        cfgDir == Join(base.dir, <<"a">>)
        cfgFile == Join(cfgDir, <<"config.yaml">>)
        cacheDir == Join(UserCacheDir(os), <<"a">>)
    IN  IF base.err # "nil" THEN [err |-> base.err, paths |-> NoPaths, dirs |-> ds]
        ELSE IF MkdirAllErr(fs, cfgDir) # "nil"
             THEN [err |-> MkdirAllErr(fs, cfgDir), paths |-> NoPaths, dirs |-> ds]
        ELSE IF MkdirAllErr(fs, cacheDir) # "nil"
             THEN [err |-> MkdirAllErr(fs, cacheDir), paths |-> NoPaths,
                   dirs |-> MkdirAll(ds, cfgDir)]
        ELSE [err |-> "nil",
              paths |-> [ConfigDir |-> cfgDir, ConfigFile |-> cfgFile,
                         CacheDir |-> cacheDir],
              dirs |-> MkdirAll(MkdirAll(ds, cfgDir), cacheDir)]

\* yaml.Marshal of a Config: one line for each field, under its yaml key
Marshal(cfg) ==
    [kind |-> "yaml",
     doc |-> << <<"ssh_key_path", cfg.SSHKeyPath>>,
                <<"github_user", cfg.GitHubUser>>,
                <<"default_recipients", cfg.DefaultRecipients>>,
                <<"cache_ttl_minutes", cfg.CacheTTLMinutes>>,
                <<"log_file_path", cfg.LogFilePath>> >>]

\* a file that is no YAML document
Garbage == [kind |-> "garbage", doc |-> <<>>]

\* the value a document gives a key, or the zero value of the field
Lookup(doc, key, zero) ==
    IF \E i \in 1..Len(doc) : doc[i][1] = key
    THEN doc[CHOOSE i \in 1..Len(doc) : doc[i][1] = key][2]
    ELSE zero

\* yaml.Unmarshal into a Config
Unmarshal(data) ==
    IF data.kind # "yaml" THEN [err |-> "yaml: unmarshal error", cfg |-> ZeroConfig]
    ELSE [err |-> "nil",
          cfg |-> MkConfig(Lookup(data.doc, "ssh_key_path", Empty),
                           Lookup(data.doc, "github_user", Empty),
                           Lookup(data.doc, "default_recipients", <<>>),
                           Lookup(data.doc, "cache_ttl_minutes", 0),
                           Lookup(data.doc, "log_file_path", Empty))]

\* the permissions os.Stat reports for a file: on Windows 0666 for every
\* file that can be written, elsewhere the bits the file was given
Modes(os) == IF os = "windows" THEN {"0666"} ELSE {"0600", "0644"}

\* the permissions of a file that os.WriteFile(path, data, 0o600) creates
NewFileMode(os) == IF os = "windows" THEN "0666" ELSE "0600"

\* os.WriteFile(path, data, 0o600): the error
WriteFileErr(ds, fs, path) ==
    IF path \in ds THEN "is a directory"
    ELSE IF Parent(path) \notin ds THEN "no such file or directory"
    ELSE "nil"

\* os.WriteFile(path, data, 0o600): a new file gets the permissions 0600, a
\* file that exists is truncated and keeps the permissions it has
WriteFilePerm(os, fs, path, data) ==
    [q \in DOMAIN fs \cup {path} |->
        IF q = path
        THEN [mode |-> IF path \in DOMAIN fs THEN fs[path].mode ELSE NewFileMode(os),
              data |-> data]
        ELSE fs[q]]

\* SaveConfig: the error and the files afterwards
SaveConfigOf(os, ds, fs, cfgFile, cfg) ==
    IF WriteFileErr(ds, fs, cfgFile) # "nil"
    THEN [err |-> WriteFileErr(ds, fs, cfgFile), files |-> fs]
    ELSE [err |-> "nil", files |-> WriteFilePerm(os, fs, cfgFile, Marshal(cfg))]

StateDir == Join(Join(HOME, <<".state">>), <<"a">>)

\* the check LoadConfig makes of the place of the file
WithinExpectedDir(absCfgFile, expectedDir) == HasPrefix(absCfgFile, expectedDir)

\* LoadConfig: the error, the Config and the directories afterwards
LoadConfigOf(os, xdgHome, ds, fs, cfgFile) ==
    LET base == UserConfigDir(os, xdgHome)
        expectedDir == Join(base.dir, <<"a">>)
        fail(e) == [err |-> e, cfg |-> ZeroConfig, dirs |-> ds]
        parsed == Unmarshal(fs[cfgFile].data)
    IN  IF base.err # "nil" THEN fail(base.err)
        ELSE IF ~WithinExpectedDir(Abs(cfgFile), expectedDir)
             THEN fail("config file path is not within expected config directory")
        ELSE IF cfgFile \notin DOMAIN fs /\ cfgFile \notin ds
             THEN fail("config file does not exist")
        ELSE IF cfgFile \in ds
             THEN fail("config file must have 0600 permissions")
        ELSE IF fs[cfgFile].mode # "0600"
             THEN fail("config file must have 0600 permissions")
        ELSE IF parsed.err # "nil" THEN fail(parsed.err)
        ELSE IF parsed.cfg.LogFilePath = Empty
             THEN IF MkdirAllErr(fs, StateDir) # "nil"
                  THEN fail(MkdirAllErr(fs, StateDir))
                  ELSE [err |-> "nil",
                        cfg |-> [parsed.cfg EXCEPT
                                    !.LogFilePath = Join(StateDir, <<"cli.log">>)],
                        dirs |-> MkdirAll(ds, StateDir)]
        ELSE [err |-> "nil", cfg |-> parsed.cfg, dirs |-> ds]

\* a pointer to a Config, which may be nil
NilPtr == [nil |-> TRUE, val |-> ZeroConfig]

PtrTo(c) == [nil |-> FALSE, val |-> c]

\* no call made yet
NoCall ==
    [op |-> "none", path |-> Empty, cfg |-> ZeroConfig, err |-> "none",
     out |-> ZeroConfig, paths |-> NoPaths, prior |-> "none",
     prevOp |-> "none", prevPath |-> Empty, prevCfg |-> ZeroConfig,
     prevErr |-> "none", prevPaths |-> NoPaths, sub |-> "none",
     captured |-> PtrTo(ZeroConfig),
     preRun |-> FALSE]

\* a call, remembering the call before it
CallAfter(c, op) ==
    [NoCall EXCEPT !.op = op, !.prevOp = c.op, !.prevPath = c.path,
                   !.prevCfg = c.cfg, !.prevErr = c.err, !.prevPaths = c.paths]

\* the permissions of a file ("absent": there is no file)
ModeOf(fs, path) == IF path \in DOMAIN fs THEN fs[path].mode ELSE "absent"

InitConfigPaths ==
    /\ pc = "idle"
    /\ LET r == InitConfigPathsOf(goos, xdg, dirs, cfiles)
       IN  /\ call' = [CallAfter(call, "init") EXCEPT !.err = r.err, !.paths = r.paths]
           /\ dirs' = r.dirs
    /\ UNCHANGED <<goos, xdg, cfiles, cryptVars, ccmd>>

SaveConfig(cfgFile, cfg) ==
    /\ pc = "idle"
    /\ LET r == SaveConfigOf(goos, dirs, cfiles, cfgFile, cfg)
       IN  /\ call' = [CallAfter(call, "save") EXCEPT !.path = cfgFile, !.cfg = cfg,
                          !.err = r.err, !.prior = ModeOf(cfiles, cfgFile)]
           /\ cfiles' = r.files
    /\ UNCHANGED <<goos, xdg, dirs, cryptVars, ccmd>>

LoadConfig(cfgFile) ==
    /\ pc = "idle"
    /\ LET r == LoadConfigOf(goos, xdg, dirs, cfiles, cfgFile)
       IN  /\ call' = [CallAfter(call, "load") EXCEPT !.path = cfgFile,
                          !.err = r.err, !.out = r.cfg,
                          !.prior = ModeOf(cfiles, cfgFile)]
           /\ dirs' = r.dirs
    /\ UNCHANGED <<goos, xdg, cfiles, cryptVars, ccmd>>

\* ------------------------------------------------------------------------
\* The config command and the program
\* ------------------------------------------------------------------------

\* ConfigCmd registers its flags: the default of log-file-path is read from
\* the Config when cfg holds a *Config, also when that pointer is nil
ConfigCmdFlags(isConfig, cfgPtr) ==
    IF isConfig
    THEN IF cfgPtr.nil THEN [panic |-> TRUE, logFilePath |-> Empty]
         ELSE [panic |-> FALSE, logFilePath |-> cfgPtr.val.LogFilePath]
    ELSE [panic |-> FALSE, logFilePath |-> Empty]

\* the package variable cfg of the program when main adds the subcommands
CfgAtAddCommand == NilPtr

\* a subcommand body reads the Config it was built with
SubcommandErr(sub, cfgPtr) ==
    IF sub = "completion" THEN "nil"
    ELSE IF cfgPtr.nil THEN "panic: nil pointer dereference"
    ELSE "nil"

\* main: the subcommands are built with the package variable cfg as it is
\* then, the pre-run step of the root command sets the paths and loads the
\* configuration, and the subcommand runs
MainOf(sub, os, xdgHome, ds, fs) ==
    LET captured == CfgAtAddCommand
        built == ConfigCmdFlags(TRUE, captured)
        ip == InitConfigPathsOf(os, xdgHome, ds, fs)
        lc == LoadConfigOf(os, xdgHome, ip.dirs, fs, ip.paths.ConfigFile)
        end(e, pre, d) == [err |-> e, captured |-> captured, preRun |-> pre, dirs |-> d]
    IN  IF built.panic THEN end("panic: nil pointer dereference", FALSE, ds)
        ELSE IF ip.err # "nil" THEN end("error initializing paths", FALSE, ip.dirs)
        ELSE IF lc.err # "nil" THEN end("error loading config", FALSE, lc.dirs)
        ELSE end(SubcommandErr(sub, captured), TRUE, lc.dirs)

Subcommands == {"config", "encrypt", "decrypt", "completion"}

Main(sub) ==
    /\ pc = "idle"
    /\ LET r == MainOf(sub, goos, xdg, dirs, cfiles)
       IN  /\ call' = [CallAfter(call, "main") EXCEPT !.sub = sub, !.err = r.err,
                          !.captured = r.captured, !.preRun = r.preRun]
           /\ dirs' = r.dirs
    /\ UNCHANGED <<goos, xdg, cfiles, cryptVars, ccmd>>

\* ------------------------------------------------------------------------
\* The config command (ConfigCmd)
\* ------------------------------------------------------------------------

FlagNames == {"ssh-key", "github-user", "log-file-path", "default-recipients", "cache-ttl"}

\* the defaults a command would have that kept the fields of the Config
FlagDefaultsFromConfig(isConfig, cfgPtr) ==
    [f \in FlagNames |->
        CASE f = "ssh-key" -> cfgPtr.val.SSHKeyPath
          [] f = "github-user" -> cfgPtr.val.GitHubUser
          [] f = "log-file-path" -> cfgPtr.val.LogFilePath
          [] f = "default-recipients" -> cfgPtr.val.DefaultRecipients
          [] f = "cache-ttl" -> cfgPtr.val.CacheTTLMinutes]

\* the defaults the flags of the command are registered with
FlagDefaults(isConfig, cfgPtr) ==
    [f \in FlagNames |->
        CASE f = "ssh-key" -> Empty
          [] f = "github-user" -> Empty
          [] f = "log-file-path" -> ConfigCmdFlags(isConfig, cfgPtr).logFilePath
          [] f = "default-recipients" -> <<>>
          [] f = "cache-ttl" -> 120]

\* cmd.Flags().GetString and the like: the value given on the command line,
\* or the default of the flag
FlagValue(defaults, args, f) == IF f \in args.given THEN args.val[f] ELSE defaults[f]

\* the body of the command: the Config after it, the configs the saveConfig
\* callback was called with, and the error returned
ConfigRunEOf(isConfig, cfgPtr, defaults, args, saveResult) ==
    IF ~isConfig THEN [err |-> "nil", cfg |-> cfgPtr, saved |-> <<>>]
    ELSE LET config == MkConfig(FlagValue(defaults, args, "ssh-key"),
                                FlagValue(defaults, args, "github-user"),
                                FlagValue(defaults, args, "default-recipients"),
                                FlagValue(defaults, args, "cache-ttl"),
                                FlagValue(defaults, args, "log-file-path"))
         IN  [err |-> saveResult, cfg |-> PtrTo(config), saved |-> <<config>>]

NoArgs == [given |-> {}, val |-> FlagDefaults(FALSE, NilPtr)]

\* no command built yet
NoCmd ==
    [phase |-> "none", isConfig |-> FALSE, built |-> NilPtr, cfg |-> NilPtr,
     defaults |-> FlagDefaults(FALSE, NilPtr), args |-> NoArgs, saveResult |-> "none",
     saved |-> <<>>, err |-> "none"]

\* ConfigCmd(cfg, saveConfig): the command is built and its flags registered
ConfigCmd(isConfig, cfgPtr) ==
    /\ ccmd.phase = "none"
    /\ ccmd' = IF ConfigCmdFlags(isConfig, cfgPtr).panic
               THEN [NoCmd EXCEPT !.phase = "panic", !.isConfig = isConfig,
                                  !.err = "panic: nil pointer dereference"]
               ELSE [NoCmd EXCEPT !.phase = "built", !.isConfig = isConfig,
                                  !.built = cfgPtr, !.cfg = cfgPtr,
                                  !.defaults = FlagDefaults(isConfig, cfgPtr)]
    /\ UNCHANGED <<goos, xdg, dirs, cfiles, call, cryptVars>>

\* the command runs with the flags given on the command line
ConfigRunE(args, saveResult) ==
    /\ ccmd.phase = "built"
    /\ LET r == ConfigRunEOf(ccmd.isConfig, ccmd.cfg, ccmd.defaults, args, saveResult)
       IN  ccmd' = [ccmd EXCEPT !.phase = "ran", !.args = args,
                                !.saveResult = saveResult, !.cfg = r.cfg,
                                !.saved = r.saved, !.err = r.err]
    /\ UNCHANGED <<goos, xdg, dirs, cfiles, call, cryptVars>>

\* ------------------------------------------------------------------------
\* The states the configuration code starts from, and its calls
\* ------------------------------------------------------------------------

XdgHomes == {Empty, <<"/", "x">>, <<"rel">>}

\* the configuration of the tests, and two more
TestConfig ==
    MkConfig(TmpKey, <<"u">>, <<PubFile1>>, 60, Join(TmpDir, <<"test.log">>))

Configs ==
    {TestConfig, ZeroConfig, MkConfig(Empty, <<"v">>, <<>>, 120, Join(TmpDir, <<"a.log">>))}

\* the directories that are there before the program first runs
BaseDirs == Prefixes(HOME) \cup Prefixes(TmpDir) \cup Prefixes(<<"C:">>)

\* the directory LoadConfig expects the configuration in
ExpectedDir(os, xdgHome) == Join(UserConfigDir(os, xdgHome).dir, <<"a">>)

\* the paths configuration files are saved to and loaded from: the path
\* InitConfigPaths gives, the path in the directory LoadConfig expects, and
\* a file in a temporary directory
OwnConfigFile(os, xdgHome) ==
    Join(Join(InitConfigDir(os, xdgHome).dir, <<"a">>), <<"config.yaml">>)

TmpConfigFile == Join(TmpDir, <<"config.yaml">>)

\* a file in a directory beside the expected one, whose name begins with
\* the name of the expected one: <user config dir>/a2/config.yaml
SiblingConfigFile(os, xdgHome) ==
    Join(ExpectedDir(os, xdgHome) \o <<"2">>, <<"config.yaml">>)

\* a path relative to the working directory
RelConfigFile == <<"config.yaml">>

ConfigFilePaths(os, xdgHome) ==
    {OwnConfigFile(os, xdgHome), Join(ExpectedDir(os, xdgHome), <<"config.yaml">>),
     TmpConfigFile}

\* the paths LoadConfig is called with: those, the file beside the expected
\* directory and the relative path
LoadFilePaths(os, xdgHome) ==
    ConfigFilePaths(os, xdgHome) \cup {SiblingConfigFile(os, xdgHome), RelConfigFile}

\* the files that are there when the program starts: none, a configuration
\* file left by an earlier run or written by hand, a file where the
\* configuration directory should be, or the configuration file of another
\* program in the directory beside
StartFiles(os, xdgHome) ==
    {<< >>}
    \cup {[p \in {OwnConfigFile(os, xdgHome)} |-> [mode |-> m, data |-> d]] :
             m \in Modes(os), d \in {Marshal(TestConfig), Garbage}}
    \cup {[p \in {Parent(OwnConfigFile(os, xdgHome))} |->
             [mode |-> NewFileMode(os), data |-> Garbage]]}
    \cup {[p \in {SiblingConfigFile(os, xdgHome)} |->
             [mode |-> NewFileMode(os), data |-> Marshal(TestConfig)]]}

\* the directories that go with the files
StartDirs(os, xdgHome, fs) ==
    IF OwnConfigFile(os, xdgHome) \in DOMAIN fs
    THEN {MkdirAll(BaseDirs, Parent(OwnConfigFile(os, xdgHome)))}
    ELSE IF fs = << >>
    THEN {BaseDirs, InitConfigPathsOf(os, xdgHome, BaseDirs, fs).dirs}
    ELSE IF SiblingConfigFile(os, xdgHome) \in DOMAIN fs
    THEN {MkdirAll(BaseDirs, Parent(SiblingConfigFile(os, xdgHome)))}
    ELSE {BaseDirs}

ConfInit ==
    /\ goos \in OSes
    /\ xdg \in (IF goos = "linux" THEN XdgHomes ELSE {Empty})
    /\ cfiles \in StartFiles(goos, xdg)
    /\ dirs \in StartDirs(goos, xdg, cfiles)
    /\ call = NoCall
    /\ ccmd = NoCmd

ConfNext ==
    \/ InitConfigPaths
    \/ \E p \in ConfigFilePaths(goos, xdg), c \in Configs : SaveConfig(p, c)
    \/ \E p \in LoadFilePaths(goos, xdg) : LoadConfig(p)
    \/ \E sub \in Subcommands : Main(sub)

\* ------------------------------------------------------------------------
\* The arguments the commands are run with
\* ------------------------------------------------------------------------

EncInputs == {Empty, InTxt, Missing}

EncOutputs == {Empty, EncTxt, EncBin}

CfgRecipientLists == SeqsUpTo({PubFile1, Bogus}, MaxRecipients)

FlagRecipientLists == SeqsUpTo({PubLit2, Empty}, MaxRecipients)

GhUserFlags == {Empty, <<"u">>, <<"-", "u">>}

CfgGitHubUsers == {Empty, <<"v", "-", "7">>}

\* the lines of a response body: a key with a trailing blank, a blank line
BodyLines == {<<"ssh-ed25519 AAAA", " ">>, <<" ">>}

NoFetch == [kind |-> "none", body |-> <<>>]

\* what http.Get and the reading of the response can give when the request
\* is made: an error, a status other than 200, a body that cannot be read,
\* or a body
Fetches(ghUser) ==
    IF ghUser = Empty \/ ~ValidUser(ghUser) THEN {NoFetch}
    ELSE {[kind |-> k, body |-> <<>>] : k \in {"error", "status", "readerr"}}
         \cup {[kind |-> "ok", body |-> b] : b \in SeqsUpTo(BodyLines, MaxRecipients)}

DecInputs == {Empty, EncTxt, InTxt, Missing}

DecOutputs == {Empty, DecTxt, DecOut, DecBin}

SshKeyFlags == {Empty, TmpKey, OtherKey}

CfgKeys == {Empty, TmpKey, OtherKey}

\* the states of the key directory
EntrySets == {E \in SUBSET Range(SortedNames) : Cardinality(E) <= MaxEntries}

\* the process ends: what the command held in memory is gone, the files stay
Exit ==
    /\ pc = "done"
    /\ pc' = "idle"
    /\ run' = NoRun
    /\ files' = files
    /\ UNCHANGED confVars

CryptStart ==
    /\ files \in {[p \in {InTxt} |-> Plain(d)] : d \in Plaintexts}
    /\ pc = "idle"
    /\ run = NoRun

\* The arguments a command does not get to read are left at their defaults:
\* the recipients and the GitHub user when Encrypt rejects its file
\* arguments, the keys and the key directory when Decrypt does.
Next ==
    \/ /\ pc = "idle"
       /\ \E input \in EncInputs, output \in EncOutputs :
          \E cfgRecipients \in (IF EncryptArgErr(files, input, output) = "nil"
                                THEN CfgRecipientLists ELSE {<<>>}),
             recipients \in (IF EncryptArgErr(files, input, output) = "nil"
                             THEN FlagRecipientLists ELSE {<<>>}),
             cfgGitHubUser \in (IF EncryptArgErr(files, input, output) = "nil"
                                THEN CfgGitHubUsers ELSE {Empty}),
             ghUserFlag \in (IF EncryptArgErr(files, input, output) = "nil"
                             THEN GhUserFlags ELSE {Empty}) :
             \E fetch \in Fetches(ResolveGhUser(ghUserFlag, cfgGitHubUser)) :
                Encrypt(input, output, cfgRecipients, cfgGitHubUser, recipients,
                        ghUserFlag, fetch)
    \/ /\ pc = "idle"
       /\ \E input \in DecInputs, output \in DecOutputs :
          \E sshKeyFlag \in (IF DecryptArgErr(files, input, output) = "nil"
                             THEN SshKeyFlags ELSE {Empty}),
             cfgKey \in (IF DecryptArgErr(files, input, output) = "nil"
                         THEN CfgKeys ELSE {Empty}) :
             \E readable \in (IF DecryptArgErr(files, input, output) = "nil"
                                 /\ selectSSHKey(sshKeyFlag, cfgKey) = Empty
                              THEN BOOLEAN ELSE {TRUE}) :
                \E entries \in (IF DecryptArgErr(files, input, output) = "nil"
                                   /\ selectSSHKey(sshKeyFlag, cfgKey) = Empty
                                   /\ readable
                                THEN EntrySets ELSE {{}}) :
                   DecryptStart(input, output, sshKeyFlag, cfgKey, entries, readable)
    \/ TryNextKey
    \/ TryAllKeysEnd
    \/ Exit

\* the commands, with the configuration code at rest
Init ==
    /\ CryptStart
    /\ goos = "linux"
    /\ xdg = Empty
    /\ cfiles = << >>
    /\ dirs = BaseDirs
    /\ call = NoCall
    /\ ccmd = NoCmd

Spec == Init /\ [][Next]_vars

\* the configuration code and the program, with the commands at rest
InitConfig ==
    /\ ConfInit
    /\ files = [p \in {InTxt} |-> Plain("P1")]
    /\ pc = "idle"
    /\ run = NoRun

SpecConfig == InitConfig /\ [][ConfNext]_vars

\* the values ConfigCmd is given as cfg: a *Config, a nil *Config, and a
\* value that holds no *Config
CmdConfigs == {<<TRUE, PtrTo(c)>> : c \in Configs} \cup {<<TRUE, NilPtr>>, <<FALSE, NilPtr>>}

\* the values of the flags on the command line
FlagArgVals ==
    {[f \in FlagNames |->
        CASE f = "ssh-key" -> OtherKey
          [] f = "github-user" -> <<"v", "-", "7">>
          [] f = "log-file-path" -> Join(TmpDir, <<"b.log">>)
          [] f = "default-recipients" -> <<PubFile1, PubLit2>>
          [] f = "cache-ttl" -> t] : t \in {0, 30}}

FlagArgs == {[given |-> g, val |-> v] : g \in SUBSET FlagNames, v \in FlagArgVals}

SaveResults == {"nil", "save failed"}

CmdNext ==
    \/ \E c \in CmdConfigs : ConfigCmd(c[1], c[2])
    \/ \E args \in FlagArgs, saveResult \in SaveResults : ConfigRunE(args, saveResult)

\* the config command, with the rest of the program at rest
InitCmd ==
    /\ Init
    /\ files = [p \in {InTxt} |-> Plain("P1")]

SpecCmd == InitCmd /\ [][CmdNext]_vars

\* ------------------------------------------------------------------------
\* Properties of Decrypt and Encrypt
\* ------------------------------------------------------------------------

\* the errors Decrypt returns before it selects a key
ArgErrs ==
    {"input file is required", "output file is required", "input file does not exist"}

\* a Decrypt that got past the checks of its file arguments
DecryptRan == run.cmd = "decrypt" /\ run.err \notin ArgErrs

\* C1: Decrypt takes the --ssh-key flag when it is not empty and attempts
\* that key only; otherwise it takes the configured SSHKeyPath when that is
\* not empty and attempts that key only; it scans the key directory only
\* when both are empty.
C1_KeyPrecedence ==
    DecryptRan =>
        /\ run.sshKeyFlag # Empty =>
              /\ ~run.scanned
              /\ run.triedKeys = <<run.sshKeyFlag>>
        /\ (run.sshKeyFlag = Empty /\ run.cfgKey # Empty) =>
              /\ ~run.scanned
              /\ run.triedKeys = <<run.cfgKey>>
        /\ run.scanned <=> (run.sshKeyFlag = Empty /\ run.cfgKey = Empty)

\* a Decrypt given a flag and a different configured key has tried the flag
C1_Witness ==
    /\ DecryptRan
    /\ pc = "done"
    /\ run.sshKeyFlag # Empty
    /\ run.cfgKey # Empty
    /\ run.sshKeyFlag # run.cfgKey
    /\ run.triedKeys = <<run.sshKeyFlag>>

\* a Decrypt that works from the keys a scan returned
Scanning == DecryptRan /\ run.scanned /\ run.readable

\* C2: working from scanned keys, Decrypt attempts them one at a time in the
\* order of the scan: the tried keys are a prefix of the scanned list, every
\* attempt but the last one failed, and when Decrypt has returned the last
\* attempt succeeded or every key of the list was tried.
C2_TriedIsPrefix ==
    Scanning =>
        /\ Len(run.triedKeys) <= Len(run.keys)
        /\ run.triedKeys = SubSeq(run.keys, 1, Len(run.triedKeys))
        /\ Len(run.attempts) = Len(run.triedKeys)
        /\ \A i \in 1..Len(run.attempts) : run.attempts[i].key = run.keys[i]
        /\ \A i \in 1..(Len(run.attempts) - 1) : run.attempts[i].err # "nil"
        /\ pc = "trying" =>
              /\ Len(run.triedKeys) = run.idx - 1
              /\ \A i \in 1..Len(run.attempts) : run.attempts[i].err # "nil"
        /\ pc = "done" =>
              \/ /\ run.attempts # <<>>
                 /\ run.attempts[Len(run.attempts)].err = "nil"
                 /\ run.success
              \/ /\ run.triedKeys = run.keys
                 /\ \A i \in 1..Len(run.attempts) : run.attempts[i].err # "nil"
                 /\ ~run.success

\* a scan of two keys or more, of which the first failed and the next was
\* attempted, up to the last
C2_Witness ==
    /\ Scanning
    /\ pc = "done"
    /\ Len(run.keys) >= 2
    /\ run.triedKeys = run.keys
    /\ run.attempts[1].err # "nil"
    /\ run.attempts[2].key = run.keys[2]

\* C3: with valid file arguments and a key directory that can be read,
\* Decrypt returns an error exactly when no attempt decrypted the input, and
\* the error lists the keys of the attempts, each once, in their order.
C3_ErrorReportsTried ==
    (DecryptRan /\ pc = "done" /\ (run.scanned => run.readable)) =>
        /\ run.err # "nil" <=> \A i \in 1..Len(run.attempts) : run.attempts[i].err # "nil"
        /\ run.err # "nil" =>
              /\ run.reported = [i \in 1..Len(run.attempts) |-> run.attempts[i].key]
              /\ \A i, j \in 1..Len(run.reported) :
                    i # j => run.reported[i] # run.reported[j]

\* Decrypt with one key, the wrong one, has returned an error that lists it;
\* and so has a Decrypt that tried several scanned keys
C3_Witness ==
    /\ DecryptRan
    /\ pc = "done"
    /\ run.err # "nil"
    /\ \/ /\ run.sshKey # Empty
          /\ KeyAt(run.sshKey, run.entries) \notin FileAt(files, run.input).rcpts
          /\ run.reported = <<run.sshKey>>
       \/ /\ run.scanned
          /\ Len(run.reported) >= 2

\* C4: Encrypt followed by Decrypt gives the plaintext back.  Stated for
\* the arguments the commands accept, which the claim includes: an output
\* path that ends with .txt or .out and a key file named id_rsa or
\* id_ed25519.  Encrypt with the public key as the only recipient returns no
\* error and leaves an encrypted file; Decrypt of a file encrypted for the
\* identity of the configured key returns no error and leaves the plaintext.
C4_RoundTrip ==
    /\ (/\ run.cmd = "encrypt"
        /\ pc = "done"
        /\ Exists(files, run.input)
        /\ HasSuffix(run.output, <<".txt">>) \/ HasSuffix(run.output, <<".out">>)
        /\ Len(run.allRecipients) = 1
        /\ run.cfgRecipients = run.allRecipients
        /\ RecipientKey(run.allRecipients[1]) # "none")
       => /\ run.err = "nil"
          /\ FileAt(files, run.output) =
                Encrypted(FileAt(files, run.input).data,
                          {RecipientKey(run.allRecipients[1])})
    /\ (/\ run.cmd = "decrypt"
        /\ pc = "done"
        /\ FileAt(files, run.input).kind = "enc"
        /\ HasSuffix(run.output, <<".txt">>) \/ HasSuffix(run.output, <<".out">>)
        /\ run.sshKeyFlag = Empty
        /\ HasSuffix(run.cfgKey, NameIdRsa) \/ HasSuffix(run.cfgKey, NameIdEd25519)
        /\ FileAt(files, run.input).rcpts = {KeyAt(run.cfgKey, run.entries)})
       => /\ run.err = "nil"
          /\ FileAt(files, run.output) = Plain(FileAt(files, run.input).data)

\* C5: an Encrypt whose combined recipient list is empty returns an error,
\* does not start age, and leaves every file as it was.
C5_NoRecipientsNoAge ==
    [][(pc = "idle" /\ run'.cmd = "encrypt" /\ Len(run'.allRecipients) = 0)
          => /\ run'.err # "nil"
             /\ run'.ageArgs = <<>>
             /\ files' = files]_vars

\* an Encrypt with valid file arguments whose request for the keys of a
\* GitHub user gave no key, and which had no other recipient
C5_Witness ==
    /\ run.cmd = "encrypt"
    /\ pc = "done"
    /\ Exists(files, run.input)
    /\ HasSuffix(run.output, <<".txt">>)
    /\ run.ghUser # Empty
    /\ run.fetch.kind = "ok"
    /\ run.allRecipients = <<>>
    /\ run.err = "at least one recipient is required"
    /\ ~Exists(files, run.output)

\* ------------------------------------------------------------------------
\* Properties of the configuration code and of the program
\* ------------------------------------------------------------------------

NotWithin == "config file path is not within expected config directory"

Not0600 == "config file must have 0600 permissions"

\* a LoadConfig of the path the call before it saved a Config to
LoadAfterSave ==
    /\ call.op = "load"
    /\ call.prevOp = "save"
    /\ call.prevPath = call.path
    /\ call.prevErr = "nil"

\* C6: SaveConfig followed by LoadConfig gives the Config back.  Stated for
\* the file the test saves to, a new file in a temporary directory: after
\* SaveConfig has saved a Config with a log file path there, LoadConfig of
\* the path returns no error and a Config equal to the saved one.
C6_SaveLoadRoundTrip ==
    (/\ LoadAfterSave
     /\ call.path = TmpConfigFile
     /\ call.prevCfg.LogFilePath # Empty)
    => /\ call.err = "nil"
       /\ call.out = call.prevCfg

\* C7: after a SaveConfig that returned no error the file has the
\* permissions 0600, whatever was at the path before, and a LoadConfig that
\* follows does not reject the permissions of the file.  Stated for the
\* platforms on which files carry permission bits, Linux and macOS.
C7_SavedFileIs0600 ==
    goos # "windows" =>
        /\ (call.op = "save" /\ call.err = "nil") => ModeOf(cfiles, call.path) = "0600"
        /\ LoadAfterSave => call.err # Not0600

\* C8: after an InitConfigPaths that returned no error the configuration
\* directory, the cache directory and the configuration file exist.
C8_InitCreatesAll ==
    (call.op = "init" /\ call.err = "nil") =>
        /\ call.paths.ConfigDir \in dirs
        /\ call.paths.CacheDir \in dirs
        /\ call.paths.ConfigFile \in DOMAIN cfiles

\* C9: the Config the subcommands of the program are built with and read is
\* a loaded one, never the nil pointer the package variable holds before the
\* pre-run step.
C9_ConfigLoadedBeforeUse ==
    call.op = "main" =>
        /\ ~call.captured.nil
        /\ call.err # "panic: nil pointer dereference"

\* C10: on every platform LoadConfig accepts the place of the path
\* InitConfigPaths returned.
C10_OwnPathAccepted ==
    (/\ call.op = "load"
     /\ call.prevOp = "init"
     /\ call.prevErr = "nil"
     /\ call.path = call.prevPaths.ConfigFile)
    => call.err # NotWithin

\* a path lies inside a directory when it is the directory or goes on from
\* it with a separator
LocatedInside(path, dir) == path = dir \/ HasPrefix(path, dir \o <<"/">>)

\* C11: LoadConfig reads no file outside the expected config directory: for
\* every path whose absolute form is not located inside <user config dir>/a,
\* a path in a directory beside it whose name begins with the same
\* characters included, LoadConfig returns an error and no Config.
C11_OutsideIsRejected ==
    (/\ call.op = "load"
     /\ UserConfigDir(goos, xdg).err = "nil"
     /\ ~LocatedInside(Abs(call.path), ExpectedDir(goos, xdg)))
    => /\ call.err # "nil"
       /\ call.out = ZeroConfig

\* ------------------------------------------------------------------------
\* Properties of the config command
\* ------------------------------------------------------------------------

\* the command was built on a *Config and has run
ConfigCmdRan == ccmd.phase = "ran" /\ ccmd.isConfig

\* C12: a run of the config command on a *Config calls the saveConfig
\* callback exactly once, with the updated Config, and returns what the
\* callback returned; every field of that Config has the value of its flag,
\* which for a flag that was not given is the default of the flag (empty
\* ssh-key, github-user and default-recipients, cache-ttl 120, log-file-path
\* as the Config had it when the command was built) and not the value the
\* field had.
C12_ConfigCmdSavesFlags ==
    ConfigCmdRan =>
        /\ Len(ccmd.saved) = 1
        /\ ccmd.saved[1] = ccmd.cfg.val
        /\ ccmd.err = ccmd.saveResult
        /\ LET given(f) == f \in ccmd.args.given
               val(f) == ccmd.args.val[f]
               c == ccmd.saved[1]
           IN  /\ c.SSHKeyPath = IF given("ssh-key") THEN val("ssh-key") ELSE Empty
               /\ c.GitHubUser = IF given("github-user") THEN val("github-user") ELSE Empty
               /\ c.DefaultRecipients =
                      IF given("default-recipients") THEN val("default-recipients") ELSE <<>>
               /\ c.CacheTTLMinutes = IF given("cache-ttl") THEN val("cache-ttl") ELSE 120
               /\ c.LogFilePath =
                      IF given("log-file-path") THEN val("log-file-path")
                      ELSE ccmd.built.val.LogFilePath

\* a run with only --ssh-key given, on a Config whose other fields were
\* set: they are overwritten with the defaults, and the callback failed
C12_Witness ==
    /\ ConfigCmdRan
    /\ ccmd.built.val = TestConfig
    /\ ccmd.args.given = {"ssh-key"}
    /\ ccmd.saveResult = "save failed"
    /\ ccmd.err = "save failed"
    /\ ccmd.saved = <<MkConfig(OtherKey, Empty, <<>>, 120, TestConfig.LogFilePath)>>

\* ------------------------------------------------------------------------
\* Properties of the scan of the key directory and of the attempts
\* ------------------------------------------------------------------------

\* the name of a private key: it begins with id_ and does not end with .pub
IsPrivateKeyName(n) == n # Empty /\ n[1] = "id_" /\ n[Len(n)] # ".pub"

\* the place of a name in the listing of the key directory
ListingIndex(entries, n) ==
    CHOOSE i \in 1..Len(ReadDir(entries)) : ReadDir(entries)[i] = n

\* C13: ScanSSHPrivateKeys returns the entries of the key directory that
\* are no directories and whose names begin with id_ and do not end with
\* .pub, all of them and nothing else, each as a path in the key directory,
\* in the order of the listing; when the directory cannot be listed Decrypt
\* returns an error and attempts no key.
C13_ScanListsPrivateKeys ==
    /\ Scanning =>
          /\ \A n \in run.entries :
                (~IsDirEntry(n) /\ IsPrivateKeyName(n))
                <=> (\E i \in 1..Len(run.keys) : run.keys[i] = SshDir \o <<"/">> \o n)
          /\ \A i \in 1..Len(run.keys) :
                \E n \in run.entries : run.keys[i] = SshDir \o <<"/">> \o n
          /\ \A i, j \in 1..Len(run.keys) :
                i < j =>
                    \E n, m \in run.entries :
                        /\ run.keys[i] = SshDir \o <<"/">> \o n
                        /\ run.keys[j] = SshDir \o <<"/">> \o m
                        /\ ListingIndex(run.entries, n) < ListingIndex(run.entries, m)
    /\ (DecryptRan /\ run.scanned /\ ~run.readable) =>
          /\ pc = "done"
          /\ run.err = "could not scan ~/.ssh for private keys"
          /\ run.keys = <<>>
          /\ run.attempts = <<>>
          /\ run.triedKeys = <<>>

\* a scan of a key directory that holds two private keys and a public key
C13_Witness ==
    /\ Scanning
    /\ run.entries = {NameIdRsaPub, NameIdRsa, NameIdEcdsa}
    /\ run.keys = <<Join(SshDir, NameIdEcdsa), Join(SshDir, NameIdRsa)>>
    /\ Len(run.attempts) = 2
    /\ pc = "done"

\* the arguments of an attempt are valid: none is empty, the key path ends
\* with id_rsa or id_ed25519, the output path with .txt or .out
ArgsValid(keyPath, output, input) ==
    /\ keyPath # Empty /\ output # Empty /\ input # Empty
    /\ \/ SubSeq(keyPath, Len(keyPath) - 1, Len(keyPath)) = <<"id_", "rsa">>
       \/ SubSeq(keyPath, Len(keyPath) - 1, Len(keyPath)) = <<"id_", "ed25519">>
    /\ output[Len(output)] \in {".txt", ".out"}

\* C14: an attempt starts age only when its arguments are valid; an attempt
\* whose arguments are not valid returns an error and does not start age;
\* working from scanned keys, the key of such an attempt is recorded as
\* tried all the same and the key after it is attempted.
C14_AgeOnlyAfterValidation ==
    DecryptRan =>
        /\ Len(run.triedKeys) >= Len(run.attempts)
        /\ \A i \in 1..Len(run.attempts) :
              LET a == run.attempts[i]
              IN  /\ run.triedKeys[i] = a.key
                  /\ a.age => ArgsValid(a.key, run.output, run.input)
                  /\ ~ArgsValid(a.key, run.output, run.input) =>
                        /\ ~a.age
                        /\ a.err # "nil"
                        /\ (Scanning /\ i < Len(run.keys)) =>
                              \/ Len(run.attempts) > i
                              \/ pc = "trying" /\ run.idx = i + 1

\* a scan gave a key that is no RSA and no Ed25519 key, and a key after it:
\* the first was rejected without age, recorded, and the second attempted
C14_Witness ==
    /\ Scanning
    /\ pc = "done"
    /\ run.keys = <<Join(SshDir, NameIdEcdsa), Join(SshDir, NameIdRsa)>>
    /\ Len(run.attempts) = 2
    /\ ~run.attempts[1].age
    /\ run.attempts[1].err # "nil"
    /\ run.triedKeys = run.keys
    /\ run.output = DecTxt

\* an explicit key was selected: the --ssh-key flag or the configured
\* SSHKeyPath is not empty
ExplicitKey == DecryptRan /\ (run.sshKeyFlag # Empty \/ run.cfgKey # Empty)

\* C15: with an explicit key Decrypt makes one attempt, with that key; it
\* does not scan the key directory and attempts no other key, whether the
\* attempt succeeds or fails; when it fails the keys the error lists are
\* that one key.
C15_ExplicitKeyOneAttempt ==
    ExplicitKey =>
        /\ pc = "done"
        /\ ~run.scanned
        /\ run.keys = <<>>
        /\ Len(run.attempts) = 1
        /\ run.attempts[1].key = run.sshKey
        /\ run.sshKey \in {run.sshKeyFlag, run.cfgKey} \ {Empty}
        /\ run.triedKeys = <<run.sshKey>>
        /\ run.success <=> run.attempts[1].err = "nil"
        /\ ~run.success =>
              /\ run.err = "decryption failed: none of the tried SSH keys matched"
              /\ run.reported = <<run.sshKey>>
        /\ run.success => run.err = "nil"

\* the configured key alone, no flag: the one attempt failed and the error
\* lists the configured key
C15_Witness ==
    /\ ExplicitKey
    /\ run.sshKeyFlag = Empty
    /\ run.cfgKey = OtherKey
    /\ Len(run.attempts) = 1
    /\ ~run.success
    /\ run.reported = <<OtherKey>>

\* ------------------------------------------------------------------------
\* Properties of the recipients of Encrypt
\* ------------------------------------------------------------------------

\* an Encrypt that passed the checks of its file arguments
EncryptRan == run.cmd = "encrypt" /\ run.err \notin ArgErrs

\* the keys of the GitHub user: of the --github-user flag when it is not
\* empty, else of the configured user; none when there is no user, the name
\* is not valid, or the request did not give a body with status 200
ExpectedGithubKeys ==
    LET user == IF run.ghUserFlag # Empty THEN run.ghUserFlag ELSE run.cfgGitHubUser
    IN  IF user = Empty \/ ~ValidUser(user) \/ run.fetch.kind # "ok" THEN <<>>
        ELSE BodyKeys(run.fetch.body)

\* C16: the recipients Encrypt passes to age are the configured default
\* recipients, then the values of the --recipient flag, then the keys of the
\* GitHub user, each in order; collecting them returns no error: when the
\* user name is not valid or the request fails or gives a status other than
\* 200 no GitHub key is added and Encrypt goes on with the recipients left.
C16_RecipientOrder ==
    EncryptRan =>
        LET expected == (run.cfgRecipients \o run.flagRecipients) \o ExpectedGithubKeys
        IN  /\ run.allRecipients = expected
            /\ run.ageArgs # <<>> =>
                  /\ Len(run.ageArgs) = 3 + 2 * Len(expected)
                  /\ \A i \in 1..Len(expected) :
                        /\ run.ageArgs[1 + 2 * i] = <<"-r">>
                        /\ run.ageArgs[2 + 2 * i] = expected[i]
            /\ (/\ expected # <<>>
                /\ \A i \in 1..Len(expected) : expected[i] # Empty
                /\ run.output[Len(run.output)] \in {".txt", ".out"})
               => run.ageArgs # <<>>
            /\ expected # <<>> => run.err # "at least one recipient is required"

\* the flag names a GitHub user, the configuration another; the request for
\* the keys of the first gave a status other than 200, and age was started
\* with the configured recipient and the recipient of the flag
C16_Witness ==
    /\ EncryptRan
    /\ run.cfgRecipients = <<PubFile1>>
    /\ run.flagRecipients = <<PubLit2>>
    /\ run.ghUserFlag = <<"u">>
    /\ run.cfgGitHubUser # Empty
    /\ run.fetch.kind = "status"
    /\ run.ageArgs = <<<<"-o">>, EncTxt, <<"-r">>, PubFile1, <<"-r">>, PubLit2, InTxt>>
    /\ run.err = "nil"

====
